---- MODULE Spec2Model ----
(***************************************************************************)
(* A model of the content-addressed object store of src/object_storage.rs: *)
(* the object codec (GitObject::from_data, Tree::from, Commit::from and    *)
(* the three write_to_object_storage encoders), the store (write_object,   *)
(* git_object_from_sha), the tree builder (write_tree), commit_tree and    *)
(* the checkout engine (checkout_sha).                                     *)
(*                                                                         *)
(* Bytes are integers and byte strings are sequences of them; the string   *)
(* literals of the source are written out as their ASCII codes.            *)
(***************************************************************************)
EXTENDS Integers, Sequences, FiniteSets, Bags, TLC

(***************************************************************************)
(* Program constants                                                       *)
(***************************************************************************)
\* pub type Sha = [u8; 20]
HashLen == 20
\* let mut type_prefix_buf: Vec<u8> = vec![0; 4]
TypePrefixLen == 4
null_byte == 0
space_byte == 32
\* b"\n"
LF == 10

\* "blob", "tree", "commit" as passed to header_for_content_length
BlobTag == <<98, 108, 111, 98>>
TreeTag == <<116, 114, 101, 101>>
CommitTag == <<99, 111, 109, 109, 105, 116>>
\* "comm": what from_data compares the 4-byte prefix of a commit against
CommPrefix == <<99, 111, 109, 109>>
\* ".git"
DotGit == <<46, 103, 105, 116>>

(***************************************************************************)
(* Byte-string helpers                                                     *)
(***************************************************************************)
\* The least i >= from with s[i] = b, or 0: the scan of read_until / skip_until.
IndexFrom(s, b, from) ==
    LET hits == {i \in from..Len(s) : s[i] = b}
    IN  IF hits = {} THEN 0 ELSE CHOOSE i \in hits : \A j \in hits : i <= j

\* The sum of a sequence of positive numbers
SumOf(f) == IF DOMAIN f = {} THEN 0 ELSE BagCardinality(f)

RECURSIVE Flatten(_)
Flatten(ss) == IF ss = <<>> THEN <<>> ELSE Head(ss) \o Flatten(Tail(ss))

RECURSIVE ToDecimal(_)
\* format!("{}", length)
ToDecimal(n) ==
    IF n < 10 THEN <<48 + n>> ELSE Append(ToDecimal(n \div 10), 48 + (n % 10))

\* str::cmp / String::cmp: lexicographic on bytes, a proper prefix is smaller.
RECURSIVE BytesLess(_, _)
BytesLess(a, b) ==
    IF b = <<>> THEN FALSE
    ELSE IF a = <<>> THEN TRUE
    ELSE IF Head(a) # Head(b) THEN Head(a) < Head(b)
    ELSE BytesLess(Tail(a), Tail(b))

\* char::is_whitespace on the ASCII range
IsWhitespace(b) == b \in {9, 10, 11, 12, 13, 32}

RECURSIVE TrimStart(_)
TrimStart(s) ==
    IF s # <<>> /\ IsWhitespace(Head(s)) THEN TrimStart(Tail(s)) ELSE s

RECURSIVE TrimEnd(_)
TrimEnd(s) ==
    IF s # <<>> /\ IsWhitespace(s[Len(s)])
    THEN TrimEnd(SubSeq(s, 1, Len(s) - 1))
    ELSE s

\* str::trim
Trim(s) == TrimEnd(TrimStart(s))

(***************************************************************************)
(* Sha1::digest.  SHA-1 itself is out of reach of a model checker; it is   *)
(* modelled by a deterministic digest of the same shape: two 16-bit        *)
(* position-weighted lanes over the whole input, spread over HashLen bytes.*)
(* NoCollision below checks that it is injective on every object the      *)
(* model stores, which is the one property of SHA-1 the program relies on. *)
(***************************************************************************)
Lane(s, mult, modulus) ==
    SumOf([i \in 1..Len(s) |->
              (((s[i] + 1) * ((i * i * 31 + i * mult + 17) % modulus)) % modulus) + 1])
    % modulus

Sha1Digest(content) ==
    LET l1 == Lane(content, 7919, 65521)
        l2 == Lane(content, 104729, 65519)
    IN  [i \in 1..HashLen |->
            CASE i = 1 -> l1 % 256
              [] i = 2 -> l1 \div 256
              [] i = 3 -> l2 % 256
              [] i = 4 -> l2 \div 256
              [] OTHER -> (l1 + i * l2) % 256]

(***************************************************************************)
(* Hex                                                                     *)
(***************************************************************************)
HexDigit(n) == IF n < 10 THEN 48 + n ELSE 87 + n

\* base16ct::lower::encode_string
sha_to_hex_string(sha) ==
    Flatten([i \in 1..Len(sha) |-> <<HexDigit(sha[i] \div 16), HexDigit(sha[i] % 16)>>])

\* One hex character of base16ct::mixed, -1 when it is none.
HexValue(c) ==
    IF c \in 48..57 THEN c - 48
    ELSE IF c \in 97..102 THEN c - 87
    ELSE IF c \in 65..70 THEN c - 55
    ELSE -1

\* base16ct::mixed::decode into [0u8; 20]: <<>> on an error, <<sha>> otherwise
\* (fewer than 40 characters leave the rest of the buffer zero).
hex_string_to_sha(hex_str) ==
    IF Len(hex_str) % 2 # 0 \/ Len(hex_str) > 2 * HashLen
       \/ \E i \in 1..Len(hex_str) : HexValue(hex_str[i]) < 0
    THEN <<>>
    ELSE << [i \in 1..HashLen |->
                IF 2 * i <= Len(hex_str)
                THEN 16 * HexValue(hex_str[2 * i - 1]) + HexValue(hex_str[2 * i])
                ELSE 0] >>

(***************************************************************************)
(* ZlibEncoder / ZlibDecoder.  The encoder is modelled by the zlib stream  *)
(* that holds the input in one stored deflate block: the 2-byte zlib       *)
(* header, the block header with the length and its complement, the data   *)
(* and the Adler-32 checksum.  The decoder checks all of it.               *)
(***************************************************************************)
\* Adler-32 in closed form: a = 1 + sum s[i], b = n + sum (n - i + 1) * s[i],
\* both modulo 65521; the four bytes are b then a, big-endian.
Adler32(s) ==
    LET n == Len(s)
        a == (1 + SumOf([i \in 1..n |-> s[i] + 1]) - n) % 65521
        b == (n + SumOf([i \in 1..n |-> (n - i + 1) * (s[i] + 1)])
                - ((n * (n + 1)) \div 2)) % 65521
    IN  <<b \div 256, b % 256, a \div 256, a % 256>>

ZlibEncode(content) ==
    LET n == Len(content)
    IN  <<120, 156, 1, n % 256, n \div 256, 255 - (n % 256), 255 - (n \div 256)>>
        \o content \o Adler32(content)

\* [ok |-> FALSE] on a corrupt or truncated stream
ZlibDecode(data) ==
    IF Len(data) < 11 THEN [ok |-> FALSE, bytes |-> <<>>]
    ELSE LET n == data[4] + 256 * data[5]
             body == SubSeq(data, 8, 7 + n)
         IN  IF /\ data[1] = 120 /\ data[2] = 156 /\ data[3] = 1
                /\ data[6] = 255 - data[4] /\ data[7] = 255 - data[5]
                /\ Len(data) = 11 + n
                /\ SubSeq(data, 8 + n, 11 + n) = Adler32(body)
             THEN [ok |-> TRUE, bytes |-> body]
             ELSE [ok |-> FALSE, bytes |-> <<>>]

(***************************************************************************)
(* The codec                                                               *)
(***************************************************************************)
\* TreeEntryPermission::to_string_repr
to_string_repr(permission) ==
    CASE permission = "Directory" -> <<52, 48, 48, 48, 48>>
      [] permission = "RegularFile" -> <<49, 48, 48, 54, 52, 52>>
      [] permission = "SymbolicLink" -> <<49, 50, 48, 48, 48, 48>>
      [] permission = "Executable" -> <<49, 48, 48, 55, 53, 53>>

Permissions == {"Directory", "RegularFile", "SymbolicLink", "Executable"}

\* The match of Tree::from on the trimmed mode string; "" when unsupported.
PermissionOf(mode) ==
    IF \E p \in Permissions : to_string_repr(p) = mode
    THEN CHOOSE p \in Permissions : to_string_repr(p) = mode
    ELSE ""

\* ObjectStorage::header_for_content_length: "{type} {length}\0"
header_for_content_length(header_type, length) ==
    header_type \o <<space_byte>> \o ToDecimal(length) \o <<null_byte>>

\* The values from_data returns: the three objects, an Err, or a panic.
Err(e) == [kind |-> "Err", error |-> e]
Panic == [kind |-> "Panic"]

\* Blob::from that loses the first byte of the payload
Blob_from_off_by_one(content) ==
    [kind |-> "Blob", content |-> SubSeq(content, 2, Len(content))]

\* Blob::from
Blob_from(content) == [kind |-> "Blob", content |-> content]

RECURSIVE Tree_from_at(_, _, _)
\* The loop of Tree::from, from position pos of the payload.
Tree_from_at(content, pos, entries) ==
    IF pos > Len(content) THEN [kind |-> "Tree", entries |-> entries]
    ELSE
    LET sp == IndexFrom(content, space_byte, pos)
        permEnd == IF sp = 0 THEN Len(content) ELSE sp
        permission == Trim(SubSeq(content, pos, permEnd))
        nul == IndexFrom(content, null_byte, permEnd + 1)
        nameEnd == IF nul = 0 THEN Len(content) ELSE nul
        name_buf == SubSeq(content, permEnd + 1, nameEnd)
    IN  IF name_buf = <<>> THEN Panic
        ELSE IF PermissionOf(permission) = "" THEN Err("UnsupportedPermission")
        ELSE IF nameEnd + HashLen > Len(content) THEN Err("UnexpectedEof")
        ELSE Tree_from_at(content, nameEnd + HashLen + 1,
                Append(entries,
                       [permission |-> PermissionOf(permission),
                        name |-> SubSeq(name_buf, 1, Len(name_buf) - 1),
                        hash |-> SubSeq(content, nameEnd + 1, nameEnd + HashLen)]))

\* Tree::from
Tree_from(content) == Tree_from_at(content, 1, <<>>)

RECURSIVE Commit_from_at(_, _, _, _)
\* The loop of Commit::from over read_commit_line, then the message.
Commit_from_at(content, pos, tree, parents) ==
    LET nl == IndexFrom(content, LF, pos)
        lineEnd == IF nl = 0 THEN Len(content) ELSE nl
        line == SubSeq(content, pos, lineEnd)
        sp == IndexFrom(line, space_byte, 1)
        prefix == SubSeq(line, 1, sp - 1)
        payload == Trim(SubSeq(line, sp + 1, Len(line)))
        sha == hex_string_to_sha(payload)
    IN  IF sp = 0
        THEN IF tree = <<>> THEN Panic
             ELSE [kind |-> "Commit", tree |-> tree[1], parents |-> parents,
                   message |-> SubSeq(content, lineEnd + 1, Len(content))]
        ELSE IF prefix = <<116, 114, 101, 101>>
        THEN IF sha = <<>> THEN Err("InvalidHashEncoding")
             ELSE Commit_from_at(content, lineEnd + 1, sha, parents)
        ELSE IF prefix = <<112, 97, 114, 101, 110, 116>>
        THEN IF sha = <<>> THEN Err("InvalidHashEncoding")
             ELSE Commit_from_at(content, lineEnd + 1, tree, Append(parents, sha[1]))
        ELSE Commit_from_at(content, lineEnd + 1, tree, parents)

\* Commit::from
Commit_from(content) == Commit_from_at(content, 1, <<>>, <<>>)

\* GitObject::from_data
from_data(data) ==
    LET z == ZlibDecode(data)
        result == z.bytes
        type_prefix == SubSeq(result, 1, TypePrefixLen)
        nul == IndexFrom(result, null_byte, TypePrefixLen + 1)
        content == IF nul = 0 THEN <<>> ELSE SubSeq(result, nul + 1, Len(result))
    IN  IF ~z.ok THEN Err("CorruptDeflateStream")
        ELSE IF Len(result) < TypePrefixLen THEN Err("UnexpectedEof")
        ELSE IF type_prefix = BlobTag THEN Blob_from(content)
        ELSE IF type_prefix = TreeTag THEN Tree_from(content)
        ELSE IF type_prefix = CommPrefix THEN Commit_from(content)
        ELSE Err("UnsupportedObjectType")

\* Blob::write_to_object_storage: the bytes handed to write_object
Blob_full_content(content) ==
    header_for_content_length(BlobTag, Len(content)) \o content

\* Tree::write_to_object_storage: the payload, then the bytes handed to write_object
Tree_content(entries) ==
    Flatten([i \in 1..Len(entries) |->
        to_string_repr(entries[i].permission) \o <<space_byte>>
        \o entries[i].name \o <<null_byte>> \o entries[i].hash])

Tree_full_content(entries) ==
    header_for_content_length(TreeTag, Len(Tree_content(entries)))
    \o Tree_content(entries)

\* "author Ruben Bakker <ruben@uncomplex.ch> 0 +0000\n"
author_line ==
    <<97, 117, 116, 104, 111, 114, 32, 82, 117, 98, 101, 110, 32, 66, 97, 107,
      107, 101, 114, 32, 60, 114, 117, 98, 101, 110, 64, 117, 110, 99, 111,
      109, 112, 108, 101, 120, 46, 99, 104, 62, 32, 48, 32, 43, 48, 48, 48,
      48, 10>>

\* "committer Ruben Bakker <ruben@uncomplex.ch> 0 +0000\n"
committer_line ==
    <<99, 111, 109, 109, 105, 116, 116, 101, 114, 32, 82, 117, 98, 101, 110,
      32, 66, 97, 107, 107, 101, 114, 32, 60, 114, 117, 98, 101, 110, 64, 117,
      110, 99, 111, 109, 112, 108, 101, 120, 46, 99, 104, 62, 32, 48, 32, 43,
      48, 48, 48, 48, 10>>

\* Commit::write_to_object_storage: the payload, then the bytes handed to write_object
Commit_content(tree, parents, message) ==
    <<116, 114, 101, 101, 32>> \o sha_to_hex_string(tree) \o <<LF>>
    \o Flatten([i \in 1..Len(parents) |->
          <<112, 97, 114, 101, 110, 116, 32>> \o sha_to_hex_string(parents[i]) \o <<LF>>])
    \o author_line \o committer_line \o <<LF>> \o message \o <<LF>>

Commit_full_content(tree, parents, message) ==
    header_for_content_length(CommitTag, Len(Commit_content(tree, parents, message)))
    \o Commit_content(tree, parents, message)

(***************************************************************************)
(* State                                                                   *)
(***************************************************************************)
VARIABLES
    dirs,       \* the directories .git/objects/<xx> that exist
    files,      \* the object files: <<xx, 38 hex characters>> -> bytes
    returned,   \* history: the <<encoded bytes, hash>> of each finished write_object, in order
    result,     \* the last operation and what it returned
    wpc,        \* concurrent writers: where each is in write_object
    wobj,       \* concurrent writers: the content each is writing
    woff,       \* concurrent writers: the bytes each has written to its file
    started,    \* concurrent writers: the write_object calls begun
    complete,   \* history: the hashes whose file a write_object left whole
    seen,       \* the reader: the last file it read
    workdir,    \* the directory write_tree is called on: path -> node
    stack,      \* the frames of write_tree's recursion, the innermost last
    wt,         \* the write_tree call: its state and what it returned
    prev,       \* history: the last write_tree call that met no I/O error
    out,        \* the last checkout of a write_tree result into an empty directory
    faults      \* the I/O errors met so far

storeVars == <<dirs, files>>
concVars == <<wpc, wobj, woff, started, complete, seen>>
treeVars == <<workdir, stack, wt, prev, out, faults>>
vars == <<dirs, files, returned, result, concVars, treeVars>>

(***************************************************************************)
(* The store                                                               *)
(***************************************************************************)
\* ObjectStorage::get_dir_for_hash: hash.get(0..2) under .git/objects
get_dir_for_hash(hash) == SubSeq(hash, 1, 2)

\* ObjectStorage::get_path_for_hash: the directory joined with hash.get(2..)
get_path_for_hash(hash) == <<get_dir_for_hash(hash), SubSeq(hash, 3, Len(hash))>>

\* File::create followed by write_all: the file holds exactly data afterwards
WriteFile(f, path, data) ==
    [p \in DOMAIN f \cup {path} |-> IF p = path THEN data ELSE f[p]]

\* write_object with the uncompressed content written to the object file
compressed_of_raw(content) == content

\* write_object, lines 279-281: what is written to the object file
compressed_of(content) == ZlibEncode(content)

\* write_object, run alone: the store after it
write_object_dirs(d, content) ==
    LET dir_path == get_dir_for_hash(sha_to_hex_string(Sha1Digest(content)))
    IN  IF dir_path \notin d THEN d \cup {dir_path} ELSE d

write_object_files(f, content) ==
    WriteFile(f, get_path_for_hash(sha_to_hex_string(Sha1Digest(content))),
              compressed_of(content))

\* write_object: the Sha it returns
write_object_hash(content) == Sha1Digest(content)

\* GitObject::from_file_path on the path of a Sha (git_object_from_sha)
git_object_from_sha(f, sha) ==
    LET file_path == get_path_for_hash(sha_to_hex_string(sha))
    IN  IF file_path \notin DOMAIN f THEN Err("NotFound") ELSE from_data(f[file_path])

(***************************************************************************)
(* checkout_sha.  The destination is a map from paths (sequences of names  *)
(* below the destination directory) to what is there.                      *)
(***************************************************************************)
DirNode == [type |-> "dir"]
FileNode(content) == [type |-> "file", content |-> content]

ParentOf(path) == SubSeq(path, 1, Len(path) - 1)
IsDir(fs, path) == path \in DOMAIN fs /\ fs[path].type = "dir"

\* std::fs::create_dir: fails when the path exists or its parent is no directory
CanCreateDir(fs, path) == path \notin DOMAIN fs /\ IsDir(fs, ParentOf(path))

\* File::create: fails on a directory, or when the parent is no directory
CanCreateFile(fs, path) ==
    /\ path # <<>>
    /\ ~IsDir(fs, path)
    /\ IsDir(fs, ParentOf(path))

Put(fs, path, node) ==
    [p \in DOMAIN fs \cup {path} |-> IF p = path THEN node ELSE fs[p]]

RECURSIVE checkout_sha(_, _, _, _)
RECURSIVE checkout_entries(_, _, _, _, _)
\* checkout_sha(path, sha) on destination fs: [fs, status], status one of
\* "Ok", "Err" (an Err returned through ?) and "Panic" (todo!()).
checkout_sha(f, fs, path, sha) ==
    LET object == git_object_from_sha(f, sha)
    IN  CASE object.kind = "Err" -> [fs |-> fs, status |-> "Err"]
          [] object.kind = "Panic" -> [fs |-> fs, status |-> "Panic"]
          [] object.kind = "Tree" -> checkout_entries(f, fs, path, object.entries, 1)
          [] object.kind = "Blob" ->
                IF CanCreateFile(fs, path)
                THEN [fs |-> Put(fs, path, FileNode(object.content)), status |-> "Ok"]
                ELSE [fs |-> fs, status |-> "Err"]
          [] object.kind = "Commit" -> [fs |-> fs, status |-> "Ok"]

\* The for loop of checkout_sha over tree.entries, from entry i.
checkout_entries(f, fs, path, entries, i) ==
    IF i > Len(entries) THEN [fs |-> fs, status |-> "Ok"]
    ELSE
    LET entry == entries[i]
        target == Append(path, entry.name)
        done ==
            CASE entry.permission = "Directory" ->
                    IF CanCreateDir(fs, target)
                    THEN checkout_sha(f, Put(fs, target, DirNode), target, entry.hash)
                    ELSE [fs |-> fs, status |-> "Err"]
              [] entry.permission = "RegularFile" ->
                    checkout_sha(f, fs, target, entry.hash)
              [] entry.permission = "SymbolicLink" -> [fs |-> fs, status |-> "Panic"]
              [] entry.permission = "Executable" -> [fs |-> fs, status |-> "Panic"]
    IN  IF done.status # "Ok" THEN done
        ELSE checkout_entries(f, done.fs, path, entries, i + 1)

\* An empty destination directory
EmptyDir == (<<>> :> DirNode)

(***************************************************************************)
(* Bounds and inputs of the store specification                            *)
(***************************************************************************)
\* write_object calls in one behaviour
MaxWrites == 3
\* the longest parent list a caller asks commit_tree for
MaxParents == 2

\* File contents: empty, "a", and bytes that contain the header's delimiters
Contents == {<<>>, <<97>>, <<104, 0, 32>>}

\* header_type, a declared length and a payload, as an object file would hold them
Raw(header_type, declared, payload) ==
    header_for_content_length(header_type, declared) \o payload

\* A sha that names no stored object
MissingSha == [i \in 1..HashLen |-> 0]

ShaOfBlob(content) == Sha1Digest(Blob_full_content(content))

\* Trees as another writer of the format stores them: entries of every mode
ForeignEntries(permission) ==
    << [permission |-> "RegularFile", name |-> <<97>>, hash |-> ShaOfBlob(<<97>>)],
       [permission |-> permission, name |-> <<98>>, hash |-> ShaOfBlob(<<97>>)],
       [permission |-> "RegularFile", name |-> <<99>>, hash |-> ShaOfBlob(<<97>>)] >>

\* The encoded byte strings handed to write_object: well-formed blobs, and
\* object files whose header is not what the encoders of this program write
Inputs ==
    {Blob_full_content(c) : c \in Contents}
    \cup { Raw(<<98, 108, 111, 98, 115>>, 1, <<97>>),          \* "blobs 1\0a"
           Raw(<<116, 114, 101, 101, 115>>, 0, <<>>),          \* "trees 0\0"
           Raw(<<116, 97, 103>>, 1, <<97>>),                   \* "tag 1\0a"
           Raw(BlobTag, 5, <<97, 98, 99>>) }                   \* "blob 5\0abc"

\* "comment 49\0tree <hex>\n\n": a commit payload under a longer type token
CommentInput ==
    Raw(<<99, 111, 109, 109, 101, 110, 116>>,
        Len(Commit_content(ShaOfBlob(<<97>>), <<>>, <<>>)),
        Commit_content(ShaOfBlob(<<97>>), <<>>, <<>>))

\* What the checkout specification stores: a blob and trees over it
CheckoutInputs ==
    {Blob_full_content(<<97>>)}
    \cup {Tree_full_content(ForeignEntries(p)) :
            p \in {"RegularFile", "Executable", "SymbolicLink"}}

\* The hashes a caller of commit_tree holds: two earlier commits and a tree
\* (commit_tree looks none of them up)
SomeShas == {ShaOfBlob(<<97>>), ShaOfBlob(<<>>)}
EmptyTreeSha == Sha1Digest(Tree_full_content(<<>>))

\* "" and "first"
Messages == {<<>>, <<102, 105, 114, 115, 116>>}

\* The hashes write_object has returned so far
KnownShas == {returned[i][2] : i \in 1..Len(returned)}

\* The encoded bytes a stored sha was written from
RawOf(sha) == returned[CHOOSE i \in 1..Len(returned) : returned[i][2] = sha][1]

RECURSIVE SeqsUpTo(_, _)
\* The sequences over S of length at most n
SeqsUpTo(S, n) ==
    IF n = 0 THEN {<<>>}
    ELSE LET shorter == SeqsUpTo(S, n - 1)
         IN  shorter \cup {Append(q, x) : q \in shorter, x \in S}

(***************************************************************************)
(* The operations of the store, each run to completion                     *)
(***************************************************************************)
Writers == {1, 2}

Init ==
    /\ dirs = {}
    /\ files = <<>>
    /\ returned = <<>>
    /\ result = [op |-> "init"]
    /\ wpc = [w \in Writers |-> "idle"]
    /\ wobj = [w \in Writers |-> <<>>]
    /\ woff = [w \in Writers |-> 0]
    /\ started = 0
    /\ complete = {}
    /\ seen = [op |-> "init"]
    /\ workdir = EmptyDir
    /\ stack = <<>>
    /\ wt = [state |-> "idle"]
    /\ prev = [state |-> "none"]
    /\ out = [op |-> "init"]
    /\ faults = 0

\* ObjectStorage::write_object(content)
WriteObject(content) ==
    /\ Len(returned) < MaxWrites
    /\ dirs' = write_object_dirs(dirs, content)
    /\ files' = write_object_files(files, content)
    /\ returned' = Append(returned, <<content, write_object_hash(content)>>)
    /\ result' = [op |-> "write_object", content |-> content,
                  value |-> write_object_hash(content)]
    /\ UNCHANGED <<concVars, treeVars>>

\* ObjectStorage::git_object_from_sha(sha): read_object
ReadObject(sha) ==
    /\ result' = [op |-> "read_object", sha |-> sha,
                  value |-> git_object_from_sha(files, sha)]
    /\ UNCHANGED <<dirs, files, returned, concVars, treeVars>>

\* commit_tree, line 344: the parents of the Commit it builds
commit_tree_parents(parent_sha) == <<parent_sha>>

\* ObjectStorage::commit_tree(tree_sha, parent_sha, message).  requested is the
\* parent list the caller holds; the signature takes one parent_sha, so a caller
\* passes its only parent when it has exactly one and some hash otherwise.
CommitTree(requested, tree_sha, parent_sha, message) ==
    LET content == Commit_full_content(tree_sha, commit_tree_parents(parent_sha), message)
    IN  /\ Len(returned) < MaxWrites
        /\ Len(requested) = 1 => parent_sha = requested[1]
        /\ dirs' = write_object_dirs(dirs, content)
        /\ files' = write_object_files(files, content)
        /\ returned' = Append(returned, <<content, write_object_hash(content)>>)
        /\ result' = [op |-> "commit_tree", requested |-> requested,
                      tree |-> tree_sha, message |-> message,
                      value |-> write_object_hash(content)]
        /\ UNCHANGED <<concVars, treeVars>>

\* ObjectStorage::checkout_sha(path, sha) into an empty directory
CheckoutSha(sha) ==
    LET done == checkout_sha(files, EmptyDir, <<>>, sha)
    IN  /\ result' = [op |-> "checkout_sha", sha |-> sha,
                      value |-> done.status, fs |-> done.fs]
        /\ UNCHANGED <<dirs, files, returned, concVars, treeVars>>

Next ==
    \/ \E content \in Inputs \cup {CommentInput} : WriteObject(content)
    \/ \E sha \in KnownShas \cup {MissingSha} : ReadObject(sha)

Spec == Init /\ [][Next]_vars

NextCommit ==
    \/ \E requested \in SeqsUpTo(SomeShas, MaxParents),
          tree_sha \in {EmptyTreeSha}, parent_sha \in SomeShas,
          message \in Messages :
            CommitTree(requested, tree_sha, parent_sha, message)
    \/ \E sha \in KnownShas : ReadObject(sha)

SpecCommit == Init /\ [][NextCommit]_vars

NextCheckout ==
    \/ \E content \in CheckoutInputs : WriteObject(content)
    \/ \E sha \in KnownShas : CheckoutSha(sha)

SpecCheckout == Init /\ [][NextCheckout]_vars

(***************************************************************************)
(* write_object step by step, for writers and a reader that run together.  *)
(* Each step is one system call of lines 283-288: dir_path.exists(),       *)
(* fs::create_dir, File::create, and the write calls of write_all.         *)
(***************************************************************************)
\* "a" and "fw": two blobs whose hashes start with the same byte, so that
\* both object files go to the same directory
ConcContents == {<<97>>, <<102, 119>>}

DirOf(content) == get_dir_for_hash(sha_to_hex_string(Sha1Digest(content)))
PathOf(content) == get_path_for_hash(sha_to_hex_string(Sha1Digest(content)))

\* write(2) at offset off of a file that holds old: a hole reads as zeros
WriteAt(old, off, data) ==
    LET n == IF Len(old) > off + Len(data) THEN Len(old) ELSE off + Len(data)
    IN  [i \in 1..n |->
            IF i > off /\ i <= off + Len(data) THEN data[i - off]
            ELSE IF i <= Len(old) THEN old[i]
            ELSE 0]

\* A caller enters write_object(content); lines 277-282 touch no shared state
Begin(w, content) ==
    /\ wpc[w] \in {"idle", "done", "failed"}
    /\ started < MaxWrites
    /\ started' = started + 1
    /\ wpc' = [wpc EXCEPT ![w] = "exists"]
    /\ wobj' = [wobj EXCEPT ![w] = content]
    /\ woff' = [woff EXCEPT ![w] = 0]
    /\ UNCHANGED <<dirs, files, returned, result, complete, seen, treeVars>>

\* line 283: if !dir_path.exists()
Exists(w) ==
    /\ wpc[w] = "exists"
    /\ wpc' = [wpc EXCEPT ![w] = IF DirOf(wobj[w]) \in dirs THEN "create" ELSE "create_dir"]
    /\ UNCHANGED <<dirs, files, returned, result, wobj, woff, started, complete, seen, treeVars>>

\* line 284: fs::create_dir(dir_path)?  An existing directory is an Err, and ?
\* returns it from write_object.
CreateDir(w) ==
    /\ wpc[w] = "create_dir"
    /\ IF DirOf(wobj[w]) \in dirs
       THEN /\ wpc' = [wpc EXCEPT ![w] = "failed"]
            /\ dirs' = dirs
       ELSE /\ wpc' = [wpc EXCEPT ![w] = "create"]
            /\ dirs' = dirs \cup {DirOf(wobj[w])}
    /\ UNCHANGED <<files, returned, result, wobj, woff, started, complete, seen, treeVars>>

\* line 287: File::create creates the file, or truncates the one that is there
Create(w) ==
    /\ wpc[w] = "create"
    /\ files' = WriteFile(files, PathOf(wobj[w]), <<>>)
    /\ wpc' = [wpc EXCEPT ![w] = "write_all"]
    /\ UNCHANGED <<dirs, returned, result, wobj, woff, started, complete, seen, treeVars>>

\* line 288: one write of write_all, of n bytes at the writer's own offset; with
\* the last one write_object returns Ok(hash)
Write(w, n) ==
    LET buf == compressed_of(wobj[w])
        path == PathOf(wobj[w])
        after == WriteAt(files[path], woff[w], SubSeq(buf, woff[w] + 1, woff[w] + n))
        last == woff[w] + n = Len(buf)
    IN  /\ wpc[w] = "write_all"
        /\ woff[w] + n <= Len(buf)
        /\ files' = [files EXCEPT ![path] = after]
        /\ woff' = [woff EXCEPT ![w] = woff[w] + n]
        /\ wpc' = [wpc EXCEPT ![w] = IF last THEN "done" ELSE "write_all"]
        /\ returned' = IF last
                       THEN Append(returned, <<wobj[w], write_object_hash(wobj[w])>>)
                       ELSE returned
        /\ complete' = IF last /\ after = buf
                       THEN complete \cup {write_object_hash(wobj[w])}
                       ELSE complete
        /\ UNCHANGED <<dirs, result, wobj, started, seen, treeVars>>

\* GitObject::from_file_path on an object that was written whole: File::open
\* and read_to_end, then from_data
Read(sha) ==
    LET path == get_path_for_hash(sha_to_hex_string(sha))
    IN  /\ seen' = [op |-> "read", sha |-> sha, data |-> files[path],
                    value |-> from_data(files[path])]
        /\ UNCHANGED <<dirs, files, returned, result, wpc, wobj, woff, started, complete, treeVars>>

\* A write call takes the whole rest of the buffer, or is short and takes half
WriteSizes(w) ==
    LET rest == Len(compressed_of(wobj[w])) - woff[w]
    IN  {rest} \cup (IF woff[w] = 0 THEN {rest \div 2} ELSE {})

NextConc ==
    \/ \E w \in Writers, content \in ConcContents : Begin(w, content)
    \/ \E w \in Writers : Exists(w)
    \/ \E w \in Writers : CreateDir(w)
    \/ \E w \in Writers : Create(w)
    \/ \E w \in Writers : \E n \in WriteSizes(w) : Write(w, n)
    \/ \E sha \in complete : Read(sha)

SpecConc == Init /\ [][NextConc]_vars

\* C5: writers that run write_object together on objects of one directory all
\* succeed: none returns an error.
ConcurrentWritersSucceed == \A w \in Writers : wpc[w] # "failed"

\* C6: a read of an object that was written whole observes its complete
\* compressed content, whatever write_object calls run meanwhile.
ReaderSeesWholeObject ==
    seen.op = "read" => seen.data = compressed_of(RawOf(seen.sha))

(***************************************************************************)
(* Properties of the store, the codec, commit_tree and checkout_sha        *)
(***************************************************************************)
\* The type token of an encoded object: the bytes before the first space
TypeToken(raw) ==
    LET sp == IndexFrom(raw, space_byte, 1)
    IN  IF sp = 0 THEN raw ELSE SubSeq(raw, 1, sp - 1)

RECURSIVE ParseDecimal(_)
ParseDecimal(digits) ==
    IF digits = <<>> THEN 0
    ELSE 10 * ParseDecimal(SubSeq(digits, 1, Len(digits) - 1)) + (digits[Len(digits)] - 48)

\* The length an encoded object declares, and the payload after the header
DeclaredLength(raw) ==
    ParseDecimal(SubSeq(raw, IndexFrom(raw, space_byte, 1) + 1,
                        IndexFrom(raw, null_byte, 1) - 1))
PayloadOf(raw) == SubSeq(raw, IndexFrom(raw, null_byte, 1) + 1, Len(raw))

IsObject(value) == value.kind \in {"Blob", "Tree", "Commit"}

\* Sha1Digest is injective on the objects written
NoCollision ==
    \A i, j \in 1..Len(returned) :
        returned[i][2] = returned[j][2] => returned[i][1] = returned[j][1]

\* C1: every write_object of the same encoded bytes returns the same hash,
\* whatever was written in between; afterwards exactly one object file holds
\* those bytes, it is the file at the path derived from the hash, and reading
\* the hash of an encoded blob yields the payload that was written.
StoreIdempotence ==
    \A i \in 1..Len(returned) :
        LET content == returned[i][1]
            hash == returned[i][2]
            path == get_path_for_hash(sha_to_hex_string(hash))
        IN  /\ \A j \in 1..Len(returned) :
                    returned[j][1] = content => returned[j][2] = hash
            /\ path \in DOMAIN files
            /\ {p \in DOMAIN files : ZlibDecode(files[p]) = [ok |-> TRUE, bytes |-> content]}
                  = {path}
            /\ \A c \in Contents :
                    content = Blob_full_content(c) =>
                        git_object_from_sha(files, hash) = [kind |-> "Blob", content |-> c]

\* Some bytes were written, then others, then the first again, and then read
StoreIdempotenceWitness ==
    /\ Len(returned) >= 3
    /\ returned[1][1] = returned[3][1]
    /\ returned[2][1] # returned[1][1]
    /\ result.op = "read_object"
    /\ result.sha = returned[1][2]
    /\ result.value.kind = "Blob"
    /\ Blob_full_content(result.value.content) = returned[1][1]

\* C4: reading a stored object whose type token is not exactly "blob", "tree"
\* or "commit" fails with the unsupported-object-type error.
UnknownTypeRejected ==
    (result.op = "read_object" /\ result.sha \in KnownShas
        /\ TypeToken(RawOf(result.sha)) \notin {BlobTag, TreeTag, CommitTag})
    => result.value = Err("UnsupportedObjectType")

\* C9: reading a stored object whose header declares another length than its
\* payload has fails with the malformed-object error; an object is returned
\* only when the two are equal.
DeclaredLengthValidated ==
    (result.op = "read_object" /\ result.sha \in KnownShas)
    => LET raw == RawOf(result.sha)
       IN  /\ DeclaredLength(raw) # Len(PayloadOf(raw))
                => result.value = Err("MalformedObject")
           /\ IsObject(result.value) => DeclaredLength(raw) = Len(PayloadOf(raw))

\* C7: the commit operation stores a commit whose parents are the list the
\* caller asked for, of length 0, 1 or 2: the stored bytes are the encoding
\* with one "parent " line per requested parent, in order, and they decode to
\* the same list.
CommitKeepsParents ==
    result.op = "commit_tree"
    => LET stored == git_object_from_sha(files, result.value)
       IN  /\ stored.kind = "Commit"
           /\ stored.parents = result.requested
           /\ RawOf(result.value)
                = Commit_full_content(result.tree, result.requested, result.message)

\* C8: checking out a stored Tree whose entries all name stored blobs ends Ok
\* and leaves every entry behind: a regular file, an executable file, or a
\* symbolic link to the blob's content.
CheckoutAllPermissions ==
    LET object == git_object_from_sha(files, result.sha)
        blob(i) == git_object_from_sha(files, object.entries[i].hash)
    IN  (result.op = "checkout_sha" /\ object.kind = "Tree"
            /\ \A i \in 1..Len(object.entries) : blob(i).kind = "Blob")
        => /\ result.value = "Ok"
           /\ \A i \in 1..Len(object.entries) :
                LET at == <<object.entries[i].name>>
                    permission == object.entries[i].permission
                IN  /\ at \in DOMAIN result.fs
                    /\ permission = "RegularFile"
                        => result.fs[at] = [type |-> "file", content |-> blob(i).content]
                    /\ permission = "Executable"
                        => result.fs[at] = [type |-> "file", content |-> blob(i).content,
                                            executable |-> TRUE]
                    /\ permission = "SymbolicLink"
                        => result.fs[at] = [type |-> "symlink", target |-> blob(i).content]

(***************************************************************************)
(* write_tree, step by step: one step per directory entry and one per      *)
(* Tree written, so that the order of the writes shows.  The directory is  *)
(* built first; read_dir hands the children out in any order.              *)
(***************************************************************************)
\* nodes below the root of the directory write_tree is called on
MaxNodes == 3
\* I/O errors in one behaviour
MaxFaults == 1

\* "b", "ab" and ".git"
Names == {<<98>>, <<97, 98>>, DotGit}
\* "x" and "y\0"
FileContents == {<<120>>, <<121, 0>>}

\* The names of the children of the directory at path
Children(fs, path) ==
    {q[Len(q)] : q \in {r \in DOMAIN fs :
                            Len(r) = Len(path) + 1 /\ SubSeq(r, 1, Len(path)) = path}}

RECURSIVE Perms(_)
\* The orders read_dir may yield a set of names in
Perms(S) ==
    IF S = {} THEN {<<>>}
    ELSE UNION {{<<x>> \o q : q \in Perms(S \ {x})} : x \in S}

RECURSIVE InsertByName(_, _)
InsertByName(sorted, e) ==
    IF sorted = <<>> THEN <<e>>
    ELSE IF BytesLess(e.name, Head(sorted).name) THEN <<e>> \o sorted
    ELSE <<Head(sorted)>> \o InsertByName(Tail(sorted), e)

RECURSIVE SortByName(_)
\* A stable sort by |a, b| a.name.cmp(&b.name)
SortByName(entries) ==
    IF entries = <<>> THEN <<>>
    ELSE InsertByName(SortByName(SubSeq(entries, 1, Len(entries) - 1)),
                      entries[Len(entries)])

\* write_tree with the entries left in the order read_dir gave them
tree_entries_unsorted(entries) == entries

\* write_tree, line 331: tree_entries.sort_by(...)
tree_entries_sorted(entries) == SortByName(entries)

\* write_tree with the blob hashed and not stored
Blob_write_files_hash_only(f, content) == f

\* Blob::write_to_object_storage: the object files after it
Blob_write_files(f, content) == write_object_files(f, Blob_full_content(content))

Top == stack[Len(stack)]
Running == wt.state = "running"
NodeCount == Cardinality(DOMAIN workdir) - 1

\* The directory is filled before write_tree is first called on it
AddFile(path, content) ==
    /\ wt.state = "idle"
    /\ NodeCount < MaxNodes
    /\ path \notin DOMAIN workdir
    /\ workdir' = Put(workdir, path, FileNode(content))
    /\ UNCHANGED <<dirs, files, returned, result, concVars, stack, wt, prev, out, faults>>

AddDir(path) ==
    /\ wt.state = "idle"
    /\ NodeCount < MaxNodes
    /\ path \notin DOMAIN workdir
    /\ workdir' = Put(workdir, path, DirNode)
    /\ UNCHANGED <<dirs, files, returned, result, concVars, stack, wt, prev, out, faults>>

\* write_tree(path), line 304: fs::read_dir; order is the order of the iterator
Frame(path, order) == [path |-> path, todo |-> order, tree_entries |-> <<>>]

\* write_tree_cwd
StartWriteTree(order) ==
    /\ ~Running
    /\ stack' = <<Frame(<<>>, order)>>
    /\ wt' = [state |-> "running", order |-> order, faulted |-> FALSE]
    /\ prev' = IF wt.state = "done" /\ ~wt.faulted
               THEN [state |-> "done", hash |-> wt.hash, order |-> wt.order]
               ELSE prev
    /\ out' = [op |-> "init"]
    /\ UNCHANGED <<dirs, files, returned, result, concVars, workdir, faults>>

\* lines 308-310: the entry named ".git" is passed over
VisitGit ==
    /\ Running /\ Top.todo # <<>>
    /\ Head(Top.todo) = DotGit
    /\ stack' = [stack EXCEPT ![Len(stack)].todo = Tail(@)]
    /\ UNCHANGED <<dirs, files, returned, result, concVars, workdir, wt, prev, out, faults>>

\* lines 313-314: a directory: the recursive call
VisitDir(order) ==
    /\ Running /\ Top.todo # <<>>
    /\ Head(Top.todo) # DotGit
    /\ IsDir(workdir, Append(Top.path, Head(Top.todo)))
    /\ stack' = Append(stack, Frame(Append(Top.path, Head(Top.todo)), order))
    /\ UNCHANGED <<dirs, files, returned, result, concVars, workdir, wt, prev, out, faults>>

\* lines 321-327: anything else is read and stored as a blob
VisitFile ==
    LET name == Head(Top.todo)
        content == workdir[Append(Top.path, name)].content
        blob == Blob_full_content(content)
    IN  /\ Running /\ Top.todo # <<>>
        /\ name # DotGit
        /\ ~IsDir(workdir, Append(Top.path, name))
        /\ dirs' = write_object_dirs(dirs, blob)
        /\ files' = Blob_write_files(files, content)
        /\ stack' = [stack EXCEPT ![Len(stack)] =
                        [@ EXCEPT !.todo = Tail(@),
                                  !.tree_entries = Append(@,
                                      [permission |-> "RegularFile", name |-> name,
                                       hash |-> write_object_hash(blob)])]]
        /\ UNCHANGED <<returned, result, concVars, workdir, wt, prev, out, faults>>

\* lines 331-336: the entries are sorted and the Tree is stored; the caller,
\* lines 314-319, records it as a Directory entry
FinishTree ==
    LET tree == Tree_full_content(tree_entries_sorted(Top.tree_entries))
        hash == write_object_hash(tree)
        caller == stack[Len(stack) - 1]
    IN  /\ Running /\ Top.todo = <<>>
        /\ dirs' = write_object_dirs(dirs, tree)
        /\ files' = write_object_files(files, tree)
        /\ IF Len(stack) = 1
           THEN /\ stack' = <<>>
                /\ wt' = [wt EXCEPT !.state = "done"] @@ [hash |-> hash]
           ELSE /\ stack' = Append(SubSeq(stack, 1, Len(stack) - 2),
                        [caller EXCEPT !.todo = Tail(@),
                                       !.tree_entries = Append(@,
                                           [permission |-> "Directory",
                                            name |-> Head(caller.todo),
                                            hash |-> hash])])
                /\ wt' = wt
        /\ UNCHANGED <<returned, result, concVars, workdir, prev, out, faults>>

\* The object the next step of write_tree would store, <<>> when none
PendingObject ==
    IF Top.todo = <<>>
    THEN <<Tree_full_content(tree_entries_sorted(Top.tree_entries))>>
    ELSE IF Head(Top.todo) # DotGit /\ ~IsDir(workdir, Append(Top.path, Head(Top.todo)))
    THEN <<Blob_full_content(workdir[Append(Top.path, Head(Top.todo))].content)>>
    ELSE <<>>

\* An Err that ? returns: of read_dir, file_type, File::open, read_to_end, or
\* inside write_object; every frame returns it.
IoError ==
    /\ Running
    /\ faults < MaxFaults
    /\ faults' = faults + 1
    /\ stack' = <<>>
    /\ wt' = [state |-> "failed"]
    /\ UNCHANGED <<dirs, files, returned, result, concVars, workdir, prev, out>>

\* An Err of write_all, line 288: the object file was created and is empty
IoErrorInWrite ==
    /\ Running
    /\ faults < MaxFaults
    /\ faults' = faults + 1
    /\ PendingObject # <<>>
    /\ dirs' = write_object_dirs(dirs, PendingObject[1])
    /\ files' = WriteFile(files, PathOf(PendingObject[1]), <<>>)
    /\ stack' = <<>>
    /\ wt' = [state |-> "failed"]
    /\ UNCHANGED <<returned, result, concVars, workdir, prev, out>>

\* line 307: an Err entry of the iterator is passed over in silence
EntryError ==
    /\ Running /\ Top.todo # <<>>
    /\ faults < MaxFaults
    /\ faults' = faults + 1
    /\ stack' = [stack EXCEPT ![Len(stack)].todo = Tail(@)]
    /\ wt' = [wt EXCEPT !.faulted = TRUE]
    /\ UNCHANGED <<dirs, files, returned, result, concVars, workdir, prev, out>>

\* checkout_sha(out_dir, hash) of what write_tree returned, out_dir empty
Checkout ==
    LET done == checkout_sha(files, EmptyDir, <<>>, wt.hash)
    IN  /\ wt.state = "done"
        /\ out.op = "init"
        /\ out' = [op |-> "checkout", sha |-> wt.hash, status |-> done.status,
                   fs |-> done.fs]
        /\ UNCHANGED <<dirs, files, returned, result, concVars, workdir, stack, wt, prev, faults>>

\* The orders read_dir may yield the directory entry at hand in
ChildOrders ==
    IF Running /\ Top.todo # <<>>
    THEN Perms(Children(workdir, Append(Top.path, Head(Top.todo))))
    ELSE {}

\* Where a file or a directory can be added
FreePaths ==
    {Append(d, n) : d \in {q \in DOMAIN workdir : workdir[q].type = "dir"}, n \in Names}

NextTree ==
    \/ \E path \in FreePaths, content \in FileContents : AddFile(path, content)
    \/ \E path \in FreePaths : AddDir(path)
    \/ \E order \in Perms(Children(workdir, <<>>)) : StartWriteTree(order)
    \/ VisitGit
    \/ \E order \in ChildOrders : VisitDir(order)
    \/ VisitFile
    \/ FinishTree
    \/ IoError
    \/ IoErrorInWrite
    \/ EntryError
    \/ Checkout

SpecTree == Init /\ [][NextTree]_vars

(***************************************************************************)
(* Properties of write_tree and of the checkout of its result              *)
(***************************************************************************)
\* The Tree objects in the store
StoredTrees ==
    {from_data(files[p]) : p \in {q \in DOMAIN files : from_data(files[q]).kind = "Tree"}}

IsStored(sha) == get_path_for_hash(sha_to_hex_string(sha)) \in DOMAIN files

\* No component of the path is ".git"
OutsideGit(path) == \A i \in 1..Len(path) : path[i] # DotGit

\* The checkout holds the file or the directory that the directory has at path
Reproduced(path) ==
    /\ path \in DOMAIN out.fs
    /\ workdir[path].type = "file" => out.fs[path] = workdir[path]
    /\ workdir[path].type = "dir" => out.fs[path].type = "dir"

SortInvariant ==
    /\ (wt.state = "done" /\ ~wt.faulted /\ prev.state = "done")
            => wt.hash = prev.hash
    /\ \A tree \in StoredTrees :
            \A i \in 1..(Len(tree.entries) - 1) :
                BytesLess(tree.entries[i].name, tree.entries[i + 1].name)

\* Two calls were given "b" and "ab" in opposite orders
SortInvariantWitness ==
    /\ wt.state = "done" /\ ~wt.faulted /\ prev.state = "done"
    /\ wt.order = << <<98>>, <<97, 98>> >>
    /\ prev.order = << <<97, 98>>, <<98>> >>

\* C10: in every state, also during a write_tree call and after one that an
\* I/O error ended, every entry of every stored Tree names an object file
\* that exists, and while no I/O error has occurred that file holds the blob or
\* the subtree of the entry.
PostOrder ==
    \A tree \in StoredTrees :
        \A i \in 1..Len(tree.entries) :
            /\ IsStored(tree.entries[i].hash)
            /\ faults = 0 =>
                    git_object_from_sha(files, tree.entries[i].hash).kind =
                        (IF tree.entries[i].permission = "Directory"
                         THEN "Tree" ELSE "Blob")

\* write_tree failed after it stored a Tree with a subdirectory in it
PostOrderWitness ==
    /\ wt.state = "failed"
    /\ \E tree \in StoredTrees :
        \E i \in 1..Len(tree.entries) : tree.entries[i].permission = "Directory"

====
